---- MODULE Spec2Model ----
(***************************************************************************)
(* Authentication glue of roomahapp: the password login route (two         *)
(* versions: app/api/auth/login/route.ts, which trusts the framework's     *)
(* cookie propagation, and the version that re-writes the provider's       *)
(* cookies onto the response), and the OAuth callback route.               *)
(*                                                                         *)
(* The Identity Provider (supabase.auth) and the Profile Store             *)
(* (supabase.from("profiles")) are external: every call to them returns    *)
(* one of the results its API can produce, or throws.                      *)
(***************************************************************************)
EXTENDS Integers, Sequences, FiniteSets, TLC

VARIABLES
    isProduction,   \* process.env.NODE_ENV === 'production'
    profiles,       \* the rows of the "profiles" table
    sessions,       \* the sessions the Identity Provider holds as signed in
    now,            \* the clock read by new Date()
    login,          \* the invocations of the login route's POST
    callback,       \* the invocations of the OAuth callback route's GET
    summary         \* the mounted instances of the OnboardingSummary component

vars == <<isProduction, profiles, sessions, now, login, callback, summary>>

----------------------------------------------------------------------------
(* Values *)

\* JavaScript's undefined (a property the JSON body does not have) and null.
Undefined == "<undefined>"
Null == "<null>"

Users == {"u1", "u2"}
EmailOf(u) == IF u = "u1" THEN "a@x.id" ELSE "b@x.id"

\* What the body's email and password properties can hold.
BodyEmails == {Undefined, "", EmailOf("u1"), EmailOf("u2")}
BodyPasswords == {Undefined, "", "hunter2"}

\* The sessions the provider can issue.
ProviderSessions ==
    { [access_token |-> "at-A", refresh_token |-> "rt-A"],
      [access_token |-> "at-B", refresh_token |-> "rt-B"] }
NoSession == [access_token |-> Null, refresh_token |-> Null]

\* The messages of the errors signInWithPassword can return.
ProviderMessages == {"Invalid login credentials", "Email not confirmed"}

\* Cookie names are character sequences, so that startsWith is computed.
SbPrefix == <<"s", "b", "-">>
AuthTokenName == <<"s", "b", "-", "a", "t">>
CodeVerifierName == <<"s", "b", "-", "c", "v">>
ThemeName == <<"t", "h">>
NearMissName == <<"s", "b", "_", "a">>

\* The options the provider may pass with a cookie it sets.
MaxAge400Days == 34560000
ProviderOptions ==
    { [path |-> "/", sameSite |-> "lax", secure |-> TRUE,
       httpOnly |-> FALSE, maxAge |-> MaxAge400Days],
      [path |-> "/auth", sameSite |-> "strict", secure |-> FALSE,
       httpOnly |-> TRUE, maxAge |-> 3600] }
\* A cookie that came with the request carries no options.
NoOptions ==
    [path |-> Null, sameSite |-> Null, secure |-> FALSE,
     httpOnly |-> FALSE, maxAge |-> 0]

\* The cookies a browser may send along with the login request.
RequestCookieJars ==
    { {},
      { [name |-> ThemeName, value |-> "dark", options |-> NoOptions],
        [name |-> NearMissName, value |-> "x", options |-> NoOptions],
        [name |-> CodeVerifierName, value |-> "pkce", options |-> NoOptions] } }

----------------------------------------------------------------------------
(* The Profile Store *)

\* A row of the profiles table. registered_at and created_at are clock
\* readings; registered_at = 0 stands for SQL NULL (the clock starts at 1).
ProfileRow(uid, admin, registered, created) ==
    [user_id |-> uid, email |-> EmailOf(uid), is_admin |-> admin,
     registered_at |-> registered, created_at |-> created]

RowsOf(rows, uid) == {p \in rows : p.user_id = uid}

\* .eq("user_id", uid).maybeSingle(): the results the store can return, each
\* {data, error} with data a set holding the row, or empty for null. One
\* matching row is returned as data; no row is data null without an error;
\* several rows, or a failed query, are an error with data null.
MaybeSingle(rows, uid) ==
    LET found == RowsOf(rows, uid)
    IN  (IF Cardinality(found) <= 1
         THEN {[data |-> found, error |-> FALSE]}
         ELSE {})
        \cup {[data |-> {}, error |-> TRUE]}

----------------------------------------------------------------------------
(* Cookies *)

\* String.prototype.startsWith
StartsWith(s, prefix) ==
    /\ Len(s) >= Len(prefix)
    /\ SubSeq(s, 1, Len(prefix)) = prefix

\* cookies.set(name, value, options): one cookie per name.
CookiesSet(jar, name, value, options) ==
    {c \in jar : c.name # name}
        \cup {[name |-> name, value |-> value, options |-> options]}

\* The cookie the provider's setAll() callback stores for a session.
SessionCookieValue(session) == session.access_token

----------------------------------------------------------------------------
(* The login route: POST *)

LoginReqs == {"r1", "r2"}

\* "auto" is app/api/auth/login/route.ts, "explicit" the version of the
\* route that sets the provider's cookies on the response itself.
Routes == {"auto", "explicit"}

NoResponse == [status |-> 0, body |-> {}, cookies |-> {}]

\* NextResponse.json(body, {status}). A body is the set of the
\* <<property path, value>> pairs of the JSON object.
JsonResponse(body, status) ==
    [status |-> status, body |-> body, cookies |-> {}]

LoginIdle ==
    [route |-> "auto", pc |-> "idle",
     email |-> Undefined, password |-> Undefined,
     cookieStore |-> {},
     signIn |-> "none", error |-> Null, user |-> Null, session |-> NoSession,
     lookup |-> "none", profile |-> {},
     signInCalls |-> 0, profileReads |-> 0,
     thrown |-> Null, response |-> NoResponse]

\* Mutant of Falsy: only a missing property is refused.
FalsyMissingOnly(x) == x = Undefined

\* !x for a body property: undefined and the empty string are falsy.
Falsy(x) == x \in {Undefined, ""}

InvalidInputBody ==
    {<<"success", "false">>, <<"error", "Email dan password harus diisi">>}

ErrorBody(message) == {<<"success", "false">>, <<"error", message>>}

NoSessionBody == {<<"success", "false">>, <<"error", "Gagal membuat session">>}

\* Mutants of SuccessBody: the session is echoed; the email is left out.
SuccessBodyWithSession(data) ==
    {<<"success", "true">>, <<"user.id", data.user>>,
     <<"user.email", EmailOf(data.user)>>,
     <<"session.access_token", data.session.access_token>>}

\* {success: true, user: {id: data.user.id, email: data.user.email}}
SuccessBody(data) ==
    {<<"success", "true">>, <<"user.id", data.user>>,
     <<"user.email", EmailOf(data.user)>>}

\* Mutant of Catch: the error's own text is returned.
CatchEchoingError(error) ==
    JsonResponse({<<"success", "false">>, <<"error", error>>}, 500)

\* The catch block: the error is logged, the body is fixed.
Catch(error) ==
    JsonResponse(
        {<<"success", "false">>, <<"error", "Terjadi kesalahan server">>}, 500)

\* A step of the try block throws: control goes to the catch block.
Thrown(req, text) ==
    [req EXCEPT !.thrown = text, !.response = Catch(text), !.pc = "done"]

LoginThrow(r, text) == login' = [login EXCEPT ![r] = Thrown(login[r], text)]

\* request.json(), the destructuring of the body and the check of the input.
LoginParse(r) ==
    /\ login[r].pc = "idle"
    /\ \E route \in Routes, jar \in RequestCookieJars :
         LET req == [login[r] EXCEPT !.route = route, !.cookieStore = jar]
         IN
         \/ \* the body is not JSON: request.json() rejects
            login' = [login EXCEPT ![r] =
                        Thrown(req, "SyntaxError: Unexpected token")]
         \/ \* the body is the JSON null: it cannot be destructured
            login' = [login EXCEPT ![r] =
                        Thrown(req, "TypeError: Cannot destructure")]
         \/ \E email \in BodyEmails, password \in BodyPasswords :
              login' = [login EXCEPT ![r] =
                 IF Falsy(email) \/ Falsy(password)
                 THEN [req EXCEPT !.email = email, !.password = password,
                                  !.response = JsonResponse(InvalidInputBody, 400),
                                  !.pc = "done"]
                 ELSE [req EXCEPT !.email = email, !.password = password,
                                  !.pc = "createClient"]]
    /\ UNCHANGED <<summary, isProduction, profiles, sessions, now, callback>>

\* await createClient()
LoginCreateClient(r) ==
    /\ login[r].pc = "createClient"
    /\ \/ LoginThrow(r, "Error: createClient failed")
       \/ login' = [login EXCEPT ![r].pc = "signIn"]
    /\ UNCHANGED <<summary, isProduction, profiles, sessions, now, callback>>

\* The results signInWithPassword can return for an email: an error, no
\* error and no session, or a session (with the options the provider passes
\* for its cookie) for the user of that email, or for no user.
SignInResults(email) ==
    {[error |-> message, user |-> Null, session |-> NoSession,
      options |-> NoOptions] : message \in ProviderMessages}
    \cup {[error |-> Null, user |-> Null, session |-> NoSession,
           options |-> NoOptions]}
    \cup {[error |-> Null, user |-> user, session |-> session,
           options |-> options] :
            user \in {u \in Users : EmailOf(u) = email} \cup {Null},
            session \in ProviderSessions,
            options \in ProviderOptions}

\* Mutant of AfterSignIn: the provider's message is replaced by a fixed one.
AfterSignInFixedMessage(req, result) ==
    IF result.error # Null
    THEN [req EXCEPT !.signIn = "error", !.error = result.error,
                     !.response = JsonResponse(ErrorBody("Login gagal"), 401),
                     !.pc = "done"]
    ELSE IF result.session = NoSession
    THEN [req EXCEPT !.signIn = "nosession",
                     !.response = JsonResponse(NoSessionBody, 401),
                     !.pc = "done"]
    ELSE IF result.user = Null
    THEN Thrown([req EXCEPT !.signIn = "session", !.session = result.session],
                "TypeError: Cannot read properties of null")
    ELSE [req EXCEPT !.signIn = "session", !.session = result.session,
                     !.user = result.user, !.pc = "lookup"]

\* The checks of the result of signInWithPassword, up to the read of
\* data.user.id.
AfterSignIn(req, result) ==
    IF result.error # Null
    THEN [req EXCEPT !.signIn = "error", !.error = result.error,
                     !.response = JsonResponse(ErrorBody(result.error), 401),
                     !.pc = "done"]
    ELSE IF result.session = NoSession
    THEN [req EXCEPT !.signIn = "nosession",
                     !.response = JsonResponse(NoSessionBody, 401),
                     !.pc = "done"]
    ELSE IF result.user = Null
    THEN Thrown([req EXCEPT !.signIn = "session", !.session = result.session],
                "TypeError: Cannot read properties of null")
    ELSE [req EXCEPT !.signIn = "session", !.session = result.session,
                     !.user = result.user, !.pc = "lookup"]

\* await supabase.auth.signInWithPassword({email, password}). A session the
\* provider issues is signed in from then on, and its cookie is in the
\* request's cookie store.
LoginSignIn(r) ==
    /\ login[r].pc = "signIn"
    /\ LET called == [login[r] EXCEPT !.signInCalls = @ + 1]
       IN
       \/ /\ login' = [login EXCEPT ![r] =
                 Thrown([called EXCEPT !.signIn = "throw"],
                        "AuthRetryableFetchError: fetch failed")]
          /\ UNCHANGED sessions
       \/ \E result \in SignInResults(login[r].email) :
            LET stored ==
                  IF result.session = NoSession THEN called
                  ELSE [called EXCEPT !.cookieStore =
                          CookiesSet(@, AuthTokenName,
                                     SessionCookieValue(result.session),
                                     result.options)]
            IN
            /\ sessions' = IF result.session = NoSession THEN sessions
                           ELSE sessions \cup {r}
            /\ login' = [login EXCEPT ![r] = AfterSignIn(stored, result)]
    /\ UNCHANGED <<summary, isProduction, profiles, now, callback>>

\* Mutant of AfterLookup: an error of the lookup fails the login.
AfterLookupStrict(req, result) ==
    IF result.error
    THEN [req EXCEPT !.lookup = "error",
                     !.response = JsonResponse(ErrorBody("Gagal memuat profil"), 500),
                     !.pc = "done"]
    ELSE [req EXCEPT !.lookup = IF result.data = {} THEN "norow" ELSE "row",
                     !.profile = {[is_admin |-> p.is_admin] : p \in result.data},
                     !.pc = "respond"]

\* const { data: profile } = ...: only data is read from the result of the
\* lookup, and profile?.is_admin is only logged.
AfterLookup(req, result) ==
    [req EXCEPT !.lookup = IF result.error THEN "error"
                           ELSE IF result.data = {} THEN "norow"
                           ELSE "row",
                !.profile = {[is_admin |-> p.is_admin] : p \in result.data},
                !.pc = "respond"]

\* await supabase.from("profiles").select("is_admin")
\*          .eq("user_id", data.user.id).maybeSingle()
LoginProfileLookup(r) ==
    /\ login[r].pc = "lookup"
    /\ LET read == [login[r] EXCEPT !.profileReads = @ + 1]
       IN
       \/ login' = [login EXCEPT ![r] =
             Thrown([read EXCEPT !.lookup = "throw"],
                    "TypeError: fetch failed")]
       \/ \E result \in MaybeSingle(profiles, login[r].user) :
            login' = [login EXCEPT ![r] = AfterLookup(read, result)]
    /\ UNCHANGED <<summary, isProduction, profiles, sessions, now, callback>>

\* allCookies.filter(c => c.name.startsWith('sb-'))
SupabaseCookies(allCookies) ==
    {c \in allCookies : StartsWith(c.name, SbPrefix)}

\* Mutants of CookieOptions: the provider's options spread under secure;
\* secure always on; httpOnly and maxAge taken over from the provider.
CookieOptionsSpread(cookie, production) ==
    [cookie.options EXCEPT !.secure = production]

CookieOptionsSecure(cookie, production) ==
    [path |-> "/", secure |-> TRUE, httpOnly |-> FALSE,
     sameSite |-> "lax", maxAge |-> MaxAge400Days]

CookieOptionsPreserve(cookie, production) ==
    [path |-> "/", secure |-> production, httpOnly |-> cookie.options.httpOnly,
     sameSite |-> "lax", maxAge |-> cookie.options.maxAge]

\* The cookieOptions the explicit route builds for a cookie.
CookieOptions(cookie, production) ==
    [path |-> "/", secure |-> production, httpOnly |-> FALSE,
     sameSite |-> "lax", maxAge |-> MaxAge400Days]

\* supabaseCookies.forEach(cookie =>
\*     response.cookies.set(cookie.name, cookie.value, cookieOptions))
RECURSIVE SetSupabaseCookies(_, _, _)
SetSupabaseCookies(cookies, jar, production) ==
    IF cookies = {} THEN jar
    ELSE LET cookie == CHOOSE c \in cookies : TRUE
         IN  SetSupabaseCookies(
                 cookies \ {cookie},
                 CookiesSet(jar, cookie.name, cookie.value,
                            CookieOptions(cookie, production)),
                 production)

\* Mutant of LoginRespond: the explicit route also returns the access token
\* in the body.
LoginRespondExplicitBodyDiffers(r) ==
    /\ login[r].pc = "respond"
    /\ LET data == [user |-> login[r].user, session |-> login[r].session]
           supabaseCookies == SupabaseCookies(login[r].cookieStore)
       IN
       \/ /\ login[r].route = "auto"
          /\ login' = [login EXCEPT
                ![r].response = JsonResponse(SuccessBody(data), 200),
                ![r].pc = "done"]
       \/ /\ login[r].route = "explicit"
          /\ \/ LoginThrow(r, "Error: cookies was called outside a request scope")
             \/ /\ supabaseCookies # {}
                /\ LoginThrow(r, "Error: invalid cookie")
             \/ login' = [login EXCEPT
                   ![r].response =
                       [JsonResponse(SuccessBodyWithSession(data), 200)
                           EXCEPT !.cookies =
                               SetSupabaseCookies(supabaseCookies, @,
                                                  isProduction)],
                   ![r].pc = "done"]
    /\ UNCHANGED <<summary, isProduction, profiles, sessions, now, callback>>

\* The end of the try block: the success response.
LoginRespond(r) ==
    /\ login[r].pc = "respond"
    /\ LET response ==
             JsonResponse(
                 SuccessBody([user |-> login[r].user,
                              session |-> login[r].session]), 200)
           supabaseCookies == SupabaseCookies(login[r].cookieStore)
       IN
       \/ /\ login[r].route = "auto"
          /\ login' = [login EXCEPT ![r].response = response, ![r].pc = "done"]
       \/ /\ login[r].route = "explicit"
          /\ \/ LoginThrow(r, "Error: cookies was called outside a request scope")
             \/ /\ supabaseCookies # {}
                /\ LoginThrow(r, "Error: invalid cookie")
             \/ login' = [login EXCEPT
                   ![r].response =
                       [response EXCEPT !.cookies =
                           SetSupabaseCookies(supabaseCookies, @, isProduction)],
                   ![r].pc = "done"]
    /\ UNCHANGED <<summary, isProduction, profiles, sessions, now, callback>>

----------------------------------------------------------------------------
(* The OAuth callback route: GET *)

Callbacks == {"c1", "c2"}

\* The code and flow query parameters; Null is an absent parameter.
Codes == {Null, "", "4/0AbCd"}
Flows == {Null, "login", "register"}

\* NextResponse.redirect(`${origin}${path}?error=${error}&message=...`);
\* error is Null for a redirect without query parameters.
Redirect(path, error) == [path |-> path, error |-> error]
NoRedirect == Redirect(Null, Null)

CallbackIdle ==
    [pc |-> "idle", code |-> Null, flow |-> Null, isRegisterFlow |-> FALSE,
     user |-> Null, exchangeError |-> FALSE, exchanged |-> FALSE,
     profile |-> {}, profileError |-> FALSE,
     exchangeCalls |-> 0, profileReads |-> 0, insertCalls |-> 0,
     signOutCalls |-> 0, pending |-> Null,
     thrown |-> Null, redirect |-> NoRedirect,
     startedAfter |-> {}, stored |-> {}]

\* The catch block: the redirect to the login page with unexpected_error.
\* Mutant of CallbackCatch: the catch answers like the fallback at the end of
\* the try block.
CallbackCatchFallback(error) == Redirect("/login", Null)

CallbackCatch(error) == Redirect("/login", "unexpected_error")

CallbackThrow(cb, text) ==
    [cb EXCEPT !.thrown = text, !.redirect = CallbackCatch(text), !.pc = "done"]

\* Mutant of IsAdmin: a missing profile counts as an admin's.
IsAdminOrAbsent(profile) == profile = {} \/ \E p \in profile : p.is_admin

\* profile?.is_admin, profile a set holding the row, or empty for null.
IsAdmin(profile) == \E p \in profile : p.is_admin

\* profile && profile.registered_at
IsRegistered(profile) == \E p \in profile : p.registered_at # 0

\* The query parameters, the check of the code and await createClient().
\* !code
CodeMissing(code) == code \in {Null, ""}

CallbackStart(c) ==
    /\ callback[c].pc = "idle"
    /\ \E code \in Codes, flow \in Flows :
         LET req == [callback[c] EXCEPT
                        !.code = code, !.flow = flow,
                        !.isRegisterFlow = (flow = "register"),
                        !.startedAfter =
                            {d \in Callbacks : callback[d].pc = "done"}]
         IN
         IF CodeMissing(code)
         THEN callback' = [callback EXCEPT ![c] =
                 [req EXCEPT !.redirect = Redirect("/login", "oauth_failed"),
                             !.pc = "done"]]
         ELSE \/ callback' = [callback EXCEPT ![c] =
                    CallbackThrow(req, "Error: createClient failed")]
              \/ callback' = [callback EXCEPT ![c] = [req EXCEPT !.pc = "exchange"]]
    /\ UNCHANGED <<summary, isProduction, profiles, sessions, now, login>>

\* await supabase.auth.exchangeCodeForSession(code) and the checks of its
\* result. A session the provider issues is signed in from then on.
\* What exchangeCodeForSession can return: an error, or data whose user and
\* session may each be missing.
ExchangeResults ==
    {[error |-> TRUE, user |-> Null, session |-> FALSE]}
    \cup {[error |-> FALSE, user |-> Null, session |-> issued] :
            issued \in BOOLEAN}
    \cup {[error |-> FALSE, user |-> user, session |-> TRUE] : user \in Users}

\* Mutant of AfterExchange: the exchange's error is not looked at.
AfterExchangeIgnoringError(called, result) ==
    LET got == [called EXCEPT !.exchangeError = result.error,
                              !.exchanged = result.session,
                              !.user = result.user]
    IN
    IF result.user = Null
    THEN [got EXCEPT !.redirect = Redirect("/login", "no_user"), !.pc = "done"]
    ELSE [got EXCEPT !.pc = "lookup"]

\* if (exchangeError) ...; const user = data.user; if (!user) ...
AfterExchange(called, result) ==
    LET got == [called EXCEPT !.exchangeError = result.error,
                              !.exchanged = result.session,
                              !.user = result.user]
    IN
    IF result.error
    THEN [got EXCEPT !.redirect = Redirect("/login", "oauth_exchange_failed"),
                     !.pc = "done"]
    ELSE IF result.user = Null
    THEN [got EXCEPT !.redirect = Redirect("/login", "no_user"), !.pc = "done"]
    ELSE [got EXCEPT !.pc = "lookup"]

CallbackExchange(c) ==
    /\ callback[c].pc = "exchange"
    /\ LET called == [callback[c] EXCEPT !.exchangeCalls = @ + 1]
       IN
       \/ /\ callback' = [callback EXCEPT ![c] =
                CallbackThrow(called, "AuthRetryableFetchError: fetch failed")]
          /\ UNCHANGED sessions
       \/ \E result \in ExchangeResults :
            /\ callback' = [callback EXCEPT ![c] = AfterExchange(called, result)]
            /\ sessions' = IF result.session THEN sessions \cup {c}
                           ELSE sessions
    /\ UNCHANGED <<summary, isProduction, profiles, now, login>>

\* Mutant of CallbackBranch: the login flow has no admin check.
CallbackBranchAdminAllowed(cb) ==
    IF ~cb.isRegisterFlow
    THEN IF cb.profile = {}
         THEN [cb EXCEPT !.pending = Redirect("/login", "account_not_found"),
                         !.pc = "signOut"]
         ELSE [cb EXCEPT !.redirect = Redirect("/cari-jodoh", Null),
                         !.pc = "done"]
    ELSE IF cb.profile # {} /\ IsRegistered(cb.profile)
         THEN [cb EXCEPT !.redirect = Redirect("/cari-jodoh", Null),
                         !.pc = "done"]
         ELSE IF cb.profile # {} /\ ~IsRegistered(cb.profile)
         THEN [cb EXCEPT !.redirect = Redirect("/onboarding/verifikasi", Null),
                         !.pc = "done"]
         ELSE [cb EXCEPT !.pc = "insert"]

\* Mutant of CallbackBranch: the login flow sends a profile without
\* registered_at to the onboarding.
CallbackBranchLoginChecksOnboarding(cb) ==
    IF ~cb.isRegisterFlow
    THEN IF IsAdmin(cb.profile)
         THEN [cb EXCEPT !.pending = Redirect("/login", "admin_oauth_blocked"),
                         !.pc = "signOut"]
         ELSE IF cb.profile = {}
         THEN [cb EXCEPT !.pending = Redirect("/login", "account_not_found"),
                         !.pc = "signOut"]
         ELSE IF ~IsRegistered(cb.profile)
         THEN [cb EXCEPT !.redirect = Redirect("/onboarding/verifikasi", Null),
                         !.pc = "done"]
         ELSE [cb EXCEPT !.redirect = Redirect("/cari-jodoh", Null),
                         !.pc = "done"]
    ELSE IF cb.profile # {} /\ IsRegistered(cb.profile)
         THEN [cb EXCEPT !.redirect = Redirect("/cari-jodoh", Null),
                         !.pc = "done"]
         ELSE IF cb.profile # {} /\ ~IsRegistered(cb.profile)
         THEN [cb EXCEPT !.redirect = Redirect("/onboarding/verifikasi", Null),
                         !.pc = "done"]
         ELSE [cb EXCEPT !.pc = "insert"]

\* Mutant of CallbackBranch: the admin check is made in both flows.
CallbackBranchAdminCheckedAlways(cb) ==
    IF IsAdmin(cb.profile)
    THEN [cb EXCEPT !.pending = Redirect("/login", "admin_oauth_blocked"),
                    !.pc = "signOut"]
    ELSE IF ~cb.isRegisterFlow
    THEN IF cb.profile = {}
         THEN [cb EXCEPT !.pending = Redirect("/login", "account_not_found"),
                         !.pc = "signOut"]
         ELSE [cb EXCEPT !.redirect = Redirect("/cari-jodoh", Null),
                         !.pc = "done"]
    ELSE IF cb.profile # {} /\ IsRegistered(cb.profile)
         THEN [cb EXCEPT !.redirect = Redirect("/cari-jodoh", Null),
                         !.pc = "done"]
         ELSE IF cb.profile # {} /\ ~IsRegistered(cb.profile)
         THEN [cb EXCEPT !.redirect = Redirect("/onboarding/verifikasi", Null),
                         !.pc = "done"]
         ELSE [cb EXCEPT !.pc = "insert"]

\* Mutant of CallbackBranch: the register flow starts a profile over when
\* its registered_at is null.
CallbackBranchRecreatesIncomplete(cb) ==
    IF ~cb.isRegisterFlow
    THEN IF IsAdmin(cb.profile)
         THEN [cb EXCEPT !.pending = Redirect("/login", "admin_oauth_blocked"),
                         !.pc = "signOut"]
         ELSE IF cb.profile = {}
         THEN [cb EXCEPT !.pending = Redirect("/login", "account_not_found"),
                         !.pc = "signOut"]
         ELSE [cb EXCEPT !.redirect = Redirect("/cari-jodoh", Null),
                         !.pc = "done"]
    ELSE IF cb.profile # {} /\ IsRegistered(cb.profile)
         THEN [cb EXCEPT !.redirect = Redirect("/cari-jodoh", Null),
                         !.pc = "done"]
         ELSE [cb EXCEPT !.pc = "insert"]

\* Mutant of CallbackBranch: the login flow signs a member out before it
\* redirects to the landing page.
CallbackBranchSignsOutMember(cb) ==
    IF ~cb.isRegisterFlow
    THEN IF IsAdmin(cb.profile)
         THEN [cb EXCEPT !.pending = Redirect("/login", "admin_oauth_blocked"),
                         !.pc = "signOut"]
         ELSE IF cb.profile = {}
         THEN [cb EXCEPT !.pending = Redirect("/login", "account_not_found"),
                         !.pc = "signOut"]
         ELSE [cb EXCEPT !.pending = Redirect("/cari-jodoh", Null),
                         !.pc = "signOut"]
    ELSE IF cb.profile # {} /\ IsRegistered(cb.profile)
         THEN [cb EXCEPT !.redirect = Redirect("/cari-jodoh", Null),
                         !.pc = "done"]
         ELSE IF cb.profile # {} /\ ~IsRegistered(cb.profile)
         THEN [cb EXCEPT !.redirect = Redirect("/onboarding/verifikasi", Null),
                         !.pc = "done"]
         ELSE [cb EXCEPT !.pc = "insert"]

\* Mutant of CallbackBranch: the login flow creates the profile it misses.
CallbackBranchLoginCreatesProfile(cb) ==
    IF ~cb.isRegisterFlow
    THEN IF IsAdmin(cb.profile)
         THEN [cb EXCEPT !.pending = Redirect("/login", "admin_oauth_blocked"),
                         !.pc = "signOut"]
         ELSE IF cb.profile = {}
         THEN [cb EXCEPT !.pc = "insert"]
         ELSE [cb EXCEPT !.redirect = Redirect("/cari-jodoh", Null),
                         !.pc = "done"]
    ELSE IF cb.profile # {} /\ IsRegistered(cb.profile)
         THEN [cb EXCEPT !.redirect = Redirect("/cari-jodoh", Null),
                         !.pc = "done"]
         ELSE IF cb.profile # {} /\ ~IsRegistered(cb.profile)
         THEN [cb EXCEPT !.redirect = Redirect("/onboarding/verifikasi", Null),
                         !.pc = "done"]
         ELSE [cb EXCEPT !.pc = "insert"]

\* The branches on the flow and the profile, up to the next await or return.
CallbackBranch(cb) ==
    IF ~cb.isRegisterFlow
    THEN IF IsAdmin(cb.profile)
         THEN [cb EXCEPT !.pending = Redirect("/login", "admin_oauth_blocked"),
                         !.pc = "signOut"]
         ELSE IF cb.profile = {}
         THEN [cb EXCEPT !.pending = Redirect("/login", "account_not_found"),
                         !.pc = "signOut"]
         ELSE [cb EXCEPT !.redirect = Redirect("/cari-jodoh", Null),
                         !.pc = "done"]
    ELSE IF cb.profile # {} /\ IsRegistered(cb.profile)
         THEN [cb EXCEPT !.redirect = Redirect("/cari-jodoh", Null),
                         !.pc = "done"]
         ELSE IF cb.profile # {} /\ ~IsRegistered(cb.profile)
         THEN [cb EXCEPT !.redirect = Redirect("/onboarding/verifikasi", Null),
                         !.pc = "done"]
         ELSE [cb EXCEPT !.pc = "insert"]

\* Mutant of CallbackLookup: a lookup that returns an error is thrown.
CallbackLookupThrowingError(c) ==
    /\ callback[c].pc = "lookup"
    /\ LET read == [callback[c] EXCEPT
                        !.profileReads = @ + 1,
                        !.stored = RowsOf(profiles, callback[c].user)]
       IN
       \/ callback' = [callback EXCEPT ![c] =
             CallbackThrow(read, "TypeError: fetch failed")]
       \/ \E result \in MaybeSingle(profiles, callback[c].user) :
            callback' = [callback EXCEPT ![c] =
               IF result.error
               THEN CallbackThrow([read EXCEPT !.profileError = TRUE],
                                  "PostgrestError")
               ELSE CallbackBranch([read EXCEPT !.profile = result.data,
                                                !.profileError = result.error])]
    /\ UNCHANGED <<summary, isProduction, profiles, sessions, now, login>>

\* await supabase.from("profiles").select(...).eq("user_id", user.id)
\*          .maybeSingle(); profileError is never read.
CallbackLookup(c) ==
    /\ callback[c].pc = "lookup"
    /\ LET read == [callback[c] EXCEPT
                        !.profileReads = @ + 1,
                        !.stored = RowsOf(profiles, callback[c].user)]
       IN
       \/ callback' = [callback EXCEPT ![c] =
             CallbackThrow(read, "TypeError: fetch failed")]
       \/ \E result \in MaybeSingle(profiles, callback[c].user) :
            callback' = [callback EXCEPT ![c] =
               CallbackBranch([read EXCEPT !.profile = result.data,
                                           !.profileError = result.error])]
    /\ UNCHANGED <<summary, isProduction, profiles, sessions, now, login>>

\* await supabase.auth.signOut() and the redirect that follows it. The
\* result of signOut is not read.
CallbackSignOut(c) ==
    /\ callback[c].pc = "signOut"
    /\ LET called == [callback[c] EXCEPT !.signOutCalls = @ + 1]
       IN
       \/ /\ callback' = [callback EXCEPT ![c] =
                CallbackThrow(called, "AuthRetryableFetchError: fetch failed")]
          /\ UNCHANGED sessions
       \/ /\ callback' = [callback EXCEPT ![c] =
                [called EXCEPT !.redirect = called.pending, !.pc = "done"]]
          /\ sessions' = sessions \ {c}
    /\ UNCHANGED <<summary, isProduction, profiles, now, login>>

\* The bound of the clock.
MaxClock == 7

\* insert(row) under the unique constraint on user_id: the results the store
\* can return, each the table after the insert and whether it is an error.
ProfilesInsert(rows, row) ==
    (IF RowsOf(rows, row.user_id) = {}
     THEN {[rows |-> rows \cup {row}, error |-> FALSE]}
     ELSE {})
    \cup {[rows |-> rows, error |-> TRUE]}

\* Mutant of AfterInsert: the insert's error is not looked at.
AfterInsertIgnoringError(called, error) ==
    [called EXCEPT !.redirect = Redirect("/onboarding/verifikasi", Null),
                   !.pc = "done"]

\* if (insertError) { signOut, redirect to /register } else the redirect to
\* the verification step.
AfterInsert(called, error) ==
    IF error
    THEN [called EXCEPT
            !.pending = Redirect("/register", "profile_creation_failed"),
            !.pc = "signOut"]
    ELSE [called EXCEPT
            !.redirect = Redirect("/onboarding/verifikasi", Null),
            !.pc = "done"]

\* Mutant of NewProfile: the row is inserted as registered.
NewProfileRegistered(user, time) == ProfileRow(user, FALSE, time, time)

\* { user_id: user.id, ..., registered_at: null, created_at: new Date() }
NewProfile(user, time) == ProfileRow(user, FALSE, 0, time)

\* createAdminClient() and await adminClient.from("profiles").insert({...})
\* and the check of its result.
CallbackInsert(c) ==
    /\ callback[c].pc = "insert"
    /\ now < MaxClock
    /\ LET called == [callback[c] EXCEPT !.insertCalls = @ + 1]
           row == NewProfile(callback[c].user, now)
       IN
       \/ /\ callback' = [callback EXCEPT ![c] =
                CallbackThrow(called, "Error: missing service role key")]
          /\ UNCHANGED <<profiles, now>>
       \/ \E result \in ProfilesInsert(profiles, row) :
            /\ profiles' = result.rows
            /\ now' = now + 1
            /\ callback' = [callback EXCEPT ![c] =
                                AfterInsert(called, result.error)]
    /\ UNCHANGED <<summary, isProduction, sessions, login>>

----------------------------------------------------------------------------
(* The onboarding summary: features/auth/components/onboarding-summary.tsx *)

\* The mounted instances of the component (two tabs).
Summaries == {"o1", "o2"}

\* How often the "Selesai" button of one instance is pressed.
MaxClicks == 2

\* useState({fiveQ: "", cv: ""}), and the catch of the effect.
UnknownFlags == [fiveQ |-> "", cv |-> ""]

SummaryUnmounted ==
    [pc |-> "unmounted", user |-> Null, mounted |-> FALSE,
     status |-> "none", flags |-> UnknownFlags, isLoading |-> FALSE,
     clicks |-> 0, flagsAtIssue |-> UnknownFlags,
     result |-> "none", before |-> 0, after |-> 0, href |-> Null]

\* What getOnboardingStatus() resolves to.
OnboardingStatuses == [fiveQ : BOOLEAN, cvMinimal : BOOLEAN]

\* const fiveQ = s.fiveQ ? "1" : "0"; const cv = s.cvMinimal ? "1" : "0"
FlagsOf(s) ==
    [fiveQ |-> IF s.fiveQ THEN "1" ELSE "0",
     cv |-> IF s.cvMinimal THEN "1" ELSE "0"]

\* The component renders for the signed-in user (Null: nobody is signed in)
\* and its effect starts getOnboardingStatus().
SummaryMount(o) ==
    /\ summary[o].pc = "unmounted"
    /\ \E user \in Users \cup {Null} :
         summary' = [summary EXCEPT ![o] =
            [@ EXCEPT !.pc = "shown", !.user = user, !.mounted = TRUE,
                      !.status = "pending"]]
    /\ UNCHANGED <<isProduction, profiles, sessions, now, login, callback>>

\* The effect's await returns or throws; setFlags only while mounted.
SummaryStatus(o) ==
    /\ summary[o].status = "pending"
    /\ summary[o].href = Null
    /\ \/ \E s \in OnboardingStatuses :
            summary' = [summary EXCEPT ![o] =
               [@ EXCEPT !.status = "resolved",
                         !.flags = IF summary[o].mounted THEN FlagsOf(s)
                                   ELSE @]]
       \/ summary' = [summary EXCEPT ![o] =
               [@ EXCEPT !.status = "failed",
                         !.flags = IF summary[o].mounted THEN UnknownFlags
                                   ELSE @]]
    /\ UNCHANGED <<isProduction, profiles, sessions, now, login, callback>>

\* The effect's cleanup: the component leaves the page.
SummaryUnmount(o) ==
    /\ summary[o].pc \in {"shown", "awaiting"}
    /\ summary[o].mounted
    /\ summary' = [summary EXCEPT ![o] =
          [@ EXCEPT !.mounted = FALSE,
                    !.pc = IF @ = "shown" THEN "left" ELSE @]]
    /\ UNCHANGED <<isProduction, profiles, sessions, now, login, callback>>

\* disabled={isLoading}
ButtonEnabled(s) == ~s.isLoading

\* onClick={handleComplete}, up to the await: setIsLoading(true) and the call
\* of completeOnboarding(null).
SummaryClick(o) ==
    /\ summary[o].pc = "shown"
    /\ ButtonEnabled(summary[o])
    /\ summary[o].clicks < MaxClicks
    /\ summary' = [summary EXCEPT ![o] =
          [@ EXCEPT !.pc = "awaiting", !.isLoading = TRUE,
                    !.clicks = @ + 1,
                    !.flagsAtIssue = summary[o].flags]]
    /\ UNCHANGED <<isProduction, profiles, sessions, now, login, callback>>

\* Mutant of CompleteOnboarding: every call stamps the row again.
CompleteOnboardingRestamping(rows, uid, time) ==
    IF uid = Null \/ RowsOf(rows, uid) = {}
    THEN [rows |-> rows, success |-> FALSE]
    ELSE [rows |-> {IF p.user_id = uid
                    THEN [p EXCEPT !.registered_at = time]
                    ELSE p : p \in rows},
          success |-> TRUE]

\* The server action completeOnboarding(): it sets registered_at of the
\* session user's row to the current time, succeeds without a change when it
\* is set already, and fails without a session or without a row.
CompleteOnboarding(rows, uid, time) ==
    IF uid = Null \/ RowsOf(rows, uid) = {}
    THEN [rows |-> rows, success |-> FALSE]
    ELSE [rows |-> {IF p.user_id = uid /\ p.registered_at = 0
                    THEN [p EXCEPT !.registered_at = time]
                    ELSE p : p \in rows},
          success |-> TRUE]

\* registered_at of the user's row, 0 when it is null or there is no row.
RegisteredAt(rows, uid) ==
    IF RowsOf(rows, uid) = {} THEN 0
    ELSE (CHOOSE p \in RowsOf(rows, uid) : TRUE).registered_at

\* Mutant of AfterComplete: a failed completion navigates too.
AfterCompleteAlwaysNavigating(s, outcome) ==
    [s EXCEPT !.result = outcome,
              !.href = IF outcome = "throw" THEN @ ELSE "/cari-jodoh",
              !.isLoading = FALSE,
              !.pc = IF outcome # "throw" \/ ~s.mounted THEN "left"
                     ELSE "shown"]

\* The rest of handleComplete: if (result.success) window.location.href =
\* "/cari-jodoh"; the else and the catch only log; finally
\* setIsLoading(false).
AfterComplete(s, outcome) ==
    [s EXCEPT !.result = outcome,
              !.href = IF outcome = "success" THEN "/cari-jodoh" ELSE @,
              !.isLoading = FALSE,
              !.pc = IF outcome = "success" \/ ~s.mounted THEN "left"
                     ELSE "shown"]

\* The await of completeOnboarding(null) returns or throws; a throw can come
\* before the server acted or after it (the response is lost).
SummaryComplete(o) ==
    /\ summary[o].pc = "awaiting"
    /\ now < MaxClock
    /\ LET s == summary[o]
           r == CompleteOnboarding(profiles, s.user, now)
           seen == [s EXCEPT !.before = RegisteredAt(profiles, s.user),
                             !.after = RegisteredAt(r.rows, s.user)]
       IN
       \/ /\ summary' = [summary EXCEPT ![o] = AfterComplete(s, "throw")]
          /\ UNCHANGED <<profiles, now>>
       \/ /\ \/ summary' = [summary EXCEPT ![o] =
                    AfterComplete(seen, IF r.success THEN "success"
                                        ELSE "failure")]
             \/ summary' = [summary EXCEPT ![o] = AfterComplete(s, "throw")]
          /\ profiles' = r.rows
          /\ now' = IF r.rows # profiles THEN now + 1 ELSE now
    /\ UNCHANGED <<isProduction, sessions, login, callback>>

----------------------------------------------------------------------------
(* Specifications *)

\* The tables the Profile Store can hold when the requests arrive.
SeedProfiles ==
    { admin \cup member :
        admin \in { {}, {ProfileRow("u1", TRUE, 1, 1)} },
        member \in { {}, {ProfileRow("u2", FALSE, 0, 1)},
                     {ProfileRow("u2", FALSE, 1, 1)} } }

Init ==
    /\ isProduction \in BOOLEAN
    /\ profiles \in SeedProfiles
    /\ sessions = {}
    /\ now = 2
    /\ login = [r \in LoginReqs |-> LoginIdle]
    /\ callback = [c \in Callbacks |-> CallbackIdle]
    /\ summary = [o \in Summaries |-> SummaryUnmounted]

LoginNext ==
    \E r \in LoginReqs :
        \/ LoginParse(r)
        \/ LoginCreateClient(r)
        \/ LoginSignIn(r)
        \/ LoginProfileLookup(r)
        \/ LoginRespond(r)

CallbackNext ==
    \E c \in Callbacks :
        \/ CallbackStart(c)
        \/ CallbackExchange(c)
        \/ CallbackLookup(c)
        \/ CallbackInsert(c)
        \/ CallbackSignOut(c)

\* The login route alone, with an admin and an unfinished member on file.
LoginInit ==
    /\ Init
    /\ profiles \in { {ProfileRow("u1", TRUE, 1, 1)},
                      {ProfileRow("u2", FALSE, 0, 1)} }

SpecLogin == LoginInit /\ [][LoginNext]_vars

\* The OAuth callback route alone.
CallbackInit ==
    /\ Init
    /\ isProduction = TRUE

SpecCallback == CallbackInit /\ [][CallbackNext]_vars

SummaryNext ==
    \E o \in Summaries :
        \/ SummaryMount(o)
        \/ SummaryStatus(o)
        \/ SummaryUnmount(o)
        \/ SummaryClick(o)
        \/ SummaryComplete(o)

\* The onboarding summary alone, with an unfinished member on file, or an
\* admin and a member who have finished.
OnboardingInit ==
    /\ Init
    /\ isProduction = TRUE
    /\ profiles \in { {ProfileRow("u2", FALSE, 0, 1)},
                      {ProfileRow("u1", TRUE, 1, 1),
                       ProfileRow("u2", FALSE, 1, 1)} }

SpecOnboarding == OnboardingInit /\ [][SummaryNext]_vars

\* One login request (the automatic route, no cookies sent, a password
\* given), one OAuth callback and one onboarding summary (of a signed-in
\* user, whose status is not loaded or complete), on an empty table or one
\* with an admin and an unfinished member.
AllInit ==
    /\ Init
    /\ isProduction = TRUE
    /\ profiles \in { {}, {ProfileRow("u1", TRUE, 1, 1),
                           ProfileRow("u2", FALSE, 0, 1)} }

AllNext ==
    \/ \E r \in {"r1"} :
          \/ /\ LoginParse(r)
             /\ login'[r].route = "auto"
             /\ login'[r].cookieStore = {}
             /\ login'[r].email \in {"", EmailOf("u2")}
             /\ login'[r].password = "hunter2"
          \/ LoginCreateClient(r)
          \/ /\ LoginSignIn(r)
             /\ login'[r].session.access_token # "at-B"
          \/ LoginProfileLookup(r)
          \/ LoginRespond(r)
    \/ \E c \in {"c1"} :
          \/ CallbackStart(c)
          \/ CallbackExchange(c)
          \/ CallbackLookup(c)
          \/ CallbackInsert(c)
          \/ CallbackSignOut(c)
    \/ \E o \in {"o1"} :
          \/ /\ SummaryMount(o)
             /\ summary'[o].user # Null
          \/ /\ SummaryStatus(o)
             /\ summary'[o].flags \in {UnknownFlags, [fiveQ |-> "1", cv |-> "1"]}
          \/ SummaryUnmount(o)
          \/ SummaryClick(o)
          \/ SummaryComplete(o)

SpecAll == AllInit /\ [][AllNext]_vars

\* The two handlers that reach the profiles table: one login request, on
\* either route, and one OAuth callback.
HandlersNext ==
    \/ \E r \in {"r1"} :
          \/ LoginParse(r)
          \/ LoginCreateClient(r)
          \/ LoginSignIn(r)
          \/ LoginProfileLookup(r)
          \/ LoginRespond(r)
    \/ \E c \in {"c1"} :
          \/ CallbackStart(c)
          \/ CallbackExchange(c)
          \/ CallbackLookup(c)
          \/ CallbackInsert(c)
          \/ CallbackSignOut(c)

SpecHandlers == CallbackInit /\ [][HandlersNext]_vars

\* Both routes and the onboarding summary.
Next == LoginNext \/ CallbackNext \/ SummaryNext

Spec == Init /\ [][Next]_vars

----------------------------------------------------------------------------
(* Properties of the login route *)

Done(r) == login[r].pc = "done"
Written(r) == login[r].response.cookies

\* The cookies of the request's store that the provider set, with the
\* options it passed.
ProviderSet(r) == {c \in login[r].cookieStore : c.options \in ProviderOptions}

\* C1: every cookie written on the login response has path "/" and sameSite
\* "lax", whatever the provider set, and the cookies written by the explicit
\* route on success are exactly the cookies of the store named sb-...
C1_PathAndSameSiteForced ==
    \A r \in LoginReqs :
        Done(r) =>
            /\ \A w \in Written(r) :
                   w.options.path = "/" /\ w.options.sameSite = "lax"
            /\ (login[r].route = "explicit" /\ login[r].response.status = 200) =>
                   {<<w.name, w.value>> : w \in Written(r)} =
                       {<<c.name, c.value>> :
                           c \in {k \in login[r].cookieStore :
                                     StartsWith(k.name, SbPrefix)}}

\* A session cookie the provider set with another path and sameSite was
\* written on the response.
C1_Witness ==
    \E r \in LoginReqs :
        /\ Done(r)
        /\ \E c \in ProviderSet(r), w \in Written(r) :
               /\ c.name = w.name
               /\ c.options.path = "/auth"
               /\ c.options.sameSite = "strict"

SessionCookies(r) ==
    {<<c.name, c.value>> : c \in SupabaseCookies(login[r].cookieStore)}

\* C3: two successful logins through the explicit route with the same
\* session cookie names and values (the environment is the process's) have
\* the same cookies, options included, written on their responses.
C3_OptionsIndependentOfProvider ==
    \A r1, r2 \in LoginReqs :
        ( /\ Done(r1) /\ Done(r2)
          /\ login[r1].route = "explicit" /\ login[r2].route = "explicit"
          /\ login[r1].response.status = 200
          /\ login[r2].response.status = 200
          /\ SessionCookies(r1) = SessionCookies(r2) )
        => Written(r1) = Written(r2)

\* Two such logins whose session cookie the provider set with different
\* options.
C3_Witness ==
    \E r1, r2 \in LoginReqs :
        /\ Done(r1) /\ Done(r2)
        /\ login[r1].route = "explicit" /\ login[r2].route = "explicit"
        /\ login[r1].response.status = 200
        /\ login[r2].response.status = 200
        /\ SessionCookies(r1) = SessionCookies(r2)
        /\ Written(r1) # {}
        /\ \E c1 \in ProviderSet(r1), c2 \in ProviderSet(r2) :
               c1.name = c2.name /\ c1.options # c2.options

\* The body was parsed and destructured: email and password hold what the
\* body gave.
Parsed(r) ==
    /\ login[r].pc # "idle"
    /\ login[r].thrown \notin {"SyntaxError: Unexpected token",
                               "TypeError: Cannot destructure"}

\* An email or password that is empty or missing.
EmptyOrMissing(x) == x = Undefined \/ x = ""

Status(r) == login[r].response.status
Body(r) == login[r].response.body

\* C4: a request whose email or password is empty or missing ends with
\* status 400 and success false, the sign-in is never called and the Profile
\* Store is never read.
C4_EmptyInputRefusedBeforeProvider ==
    \A r \in LoginReqs :
        (Parsed(r) /\ (EmptyOrMissing(login[r].email)
                          \/ EmptyOrMissing(login[r].password))) =>
            /\ Done(r)
            /\ Status(r) = 400
            /\ <<"success", "false">> \in Body(r)
            /\ login[r].signInCalls = 0
            /\ login[r].profileReads = 0
            /\ login[r].signIn = "none"
            /\ login[r].lookup = "none"

\* A request with an empty email and a password was refused, and another
\* with an email and no password.
C4_Witness ==
    \E r1, r2 \in LoginReqs :
        /\ Parsed(r1) /\ login[r1].email = ""
        /\ ~EmptyOrMissing(login[r1].password)
        /\ Status(r1) = 400
        /\ Parsed(r2) /\ ~EmptyOrMissing(login[r2].email)
        /\ login[r2].password = Undefined
        /\ Status(r2) = 400

\* C5: with a non-empty email and password the status is 401 exactly when
\* the sign-in returned an error (the body's error is the provider's
\* message) or returned no session, and a 401 response has no cookie set by
\* the handler.
C5_Unauthorized ==
    \A r \in LoginReqs :
        (Done(r) /\ Parsed(r)
            /\ ~EmptyOrMissing(login[r].email)
            /\ ~EmptyOrMissing(login[r].password)) =>
            /\ Status(r) = 401 <=> login[r].signIn \in {"error", "nosession"}
            /\ login[r].signIn = "error" =>
                   /\ login[r].error \in ProviderMessages
                   /\ Body(r) = {<<"success", "false">>,
                                 <<"error", login[r].error>>}
            /\ login[r].signIn = "nosession" => Body(r) = NoSessionBody
            /\ Status(r) = 401 => Written(r) = {}

\* One request was answered 401 with the provider's message, the other 401
\* for a missing session.
C5_Witness ==
    \E r1, r2 \in LoginReqs :
        /\ Done(r1) /\ login[r1].signIn = "error" /\ Status(r1) = 401
        /\ <<"error", "Email not confirmed">> \in Body(r1)
        /\ Done(r2) /\ login[r2].signIn = "nosession" /\ Status(r2) = 401

\* The sign-in returned a session and a user.
SignedIn(r) == login[r].signIn = "session" /\ login[r].user # Null

\* C6 as claimed: after a sign-in with a session, a lookup that returned an
\* error or no row, or that threw, still ends in status 200 (when no other
\* step throws).
C6_LookupFailureNeverFailsLogin ==
    \A r \in LoginReqs :
        (Done(r) /\ SignedIn(r)
            /\ login[r].lookup \in {"error", "norow", "throw"}
            /\ (login[r].thrown = Null \/ login[r].lookup = "throw")) =>
            Status(r) = 200

\* C6, amended: a lookup that returned an error or no row does not fail the
\* login (the handler goes on to the success response, status 200 unless the
\* explicit route's reading or setting of cookies throws); a lookup that
\* threw ends in status 500.
C6_ReturnedLookupFailureIgnored ==
    \A r \in LoginReqs :
        /\ login[r].lookup \in {"error", "norow"} =>
               /\ login[r].pc \in {"respond", "done"}
               /\ login[r].profile = {}
               /\ (Done(r) /\ login[r].thrown = Null) =>
                      /\ Status(r) = 200
                      /\ <<"success", "true">> \in Body(r)
               /\ (Done(r) /\ login[r].thrown # Null) =>
                      /\ login[r].route = "explicit"
                      /\ login[r].thrown \in
                             {"Error: cookies was called outside a request scope",
                              "Error: invalid cookie"}
        /\ login[r].lookup = "throw" => (Done(r) /\ Status(r) = 500)

\* One login succeeded after a lookup error for a user with a profile,
\* another after a lookup that found no row.
C6_Witness ==
    \E r1, r2 \in LoginReqs :
        /\ Done(r1) /\ login[r1].lookup = "error" /\ Status(r1) = 200
        /\ RowsOf(profiles, login[r1].user) # {}
        /\ Done(r2) /\ login[r2].lookup = "norow" /\ Status(r2) = 200

\* The password of the request and the tokens of the session.
Secrets(r) ==
    ({login[r].password} \ {Undefined, ""})
        \cup ({login[r].session.access_token,
               login[r].session.refresh_token} \ {Null})

\* C7: a successful login is answered 200 with a body of exactly success,
\* user.id and user.email of the signed-in user; no response body holds the
\* password or a token of the session.
C7_BodyHoldsNoSecret ==
    \A r \in LoginReqs :
        /\ (Done(r) /\ SignedIn(r) /\ login[r].thrown = Null) =>
               /\ Status(r) = 200
               /\ Body(r) = {<<"success", "true">>,
                             <<"user.id", login[r].user>>,
                             <<"user.email", EmailOf(login[r].user)>>}
               /\ EmailOf(login[r].user) = login[r].email
        /\ Status(r) = 200 => (SignedIn(r) /\ login[r].thrown = Null)
        /\ \A pair \in Body(r) :
               /\ pair[2] \notin Secrets(r)
               /\ pair[1] \in {"success", "error", "user.id", "user.email"}

\* A login through each route succeeded for a session with tokens.
C7_Witness ==
    \E r1, r2 \in LoginReqs :
        /\ Status(r1) = 200 /\ login[r1].route = "auto"
        /\ Status(r2) = 200 /\ login[r2].route = "explicit"
        /\ login[r1].session.access_token # Null
        /\ login[r1].user # login[r2].user

\* C8: a request in which a step threw is answered 500 with success false
\* and the fixed message, never the text of the exception, and no cookie.
C8_ExceptionIsServerError ==
    \A r \in LoginReqs :
        /\ login[r].thrown # Null =>
               /\ Done(r)
               /\ Status(r) = 500
               /\ Body(r) = {<<"success", "false">>,
                             <<"error", "Terjadi kesalahan server">>}
               /\ \A pair \in Body(r) : pair[2] # login[r].thrown
               /\ Written(r) = {}
        /\ Status(r) = 500 => login[r].thrown # Null

\* One request threw in the sign-in, the other when setting the cookies.
C8_Witness ==
    \E r1, r2 \in LoginReqs :
        /\ login[r1].signIn = "throw" /\ Status(r1) = 500
        /\ login[r2].thrown = "Error: invalid cookie" /\ Status(r2) = 500
        /\ login[r2].lookup = "row"

----------------------------------------------------------------------------
(* Properties of the OAuth callback route *)

Returned(c) == callback[c].pc = "done"

\* The lookup of a login-flow callback returned (data, error or both null).
LoginFlowLookedUp(c) ==
    /\ ~callback[c].isRegisterFlow
    /\ callback[c].profileReads = 1
    /\ callback[c].pc # "lookup"
    /\ callback[c].thrown # "TypeError: fetch failed"

\* The lookup returned a profile with is_admin true.
AdminProfileFound(c) == \E p \in callback[c].profile : p.is_admin = TRUE

StoredAdmin(c) == \E p \in RowsOf(profiles, callback[c].user) : p.is_admin

NoProfileFound(c) == callback[c].profile = {}

\* The lookup returned a profile that is not an admin's.
MemberProfileFound(c) ==
    /\ callback[c].profile # {}
    /\ \A p \in callback[c].profile : p.is_admin = FALSE

RegisterFlowLookedUp(c) ==
    /\ callback[c].isRegisterFlow
    /\ callback[c].profileReads = 1
    /\ callback[c].pc # "lookup"
    /\ callback[c].thrown # "TypeError: fetch failed"

\* C12: a register-flow callback whose lookup returned a profile returns at
\* once, to /cari-jodoh when registered_at is set and to
\* /onboarding/verifikasi when it is null; it attempts no insert, leaves the
\* row as it is in the table, and does not sign out, an admin's profile
\* included.
C12_RegisterFlowExistingProfile ==
    \A c \in Callbacks :
        (RegisterFlowLookedUp(c) /\ callback[c].profile # {}) =>
            /\ Returned(c)
            /\ callback[c].thrown = Null
            /\ callback[c].insertCalls = 0
            /\ callback[c].signOutCalls = 0
            /\ c \in sessions
            /\ callback[c].profile \subseteq profiles
            /\ \A p \in callback[c].profile :
                   callback[c].redirect =
                       IF p.registered_at # 0
                       THEN Redirect("/cari-jodoh", Null)
                       ELSE Redirect("/onboarding/verifikasi", Null)

\* A register-flow callback of an admin with registered_at set went to
\* /cari-jodoh, and one of a member with registered_at null to the
\* verification step.
C12_Witness ==
    \E c, d \in Callbacks :
        /\ RegisterFlowLookedUp(c) /\ AdminProfileFound(c)
        /\ callback[c].redirect = Redirect("/cari-jodoh", Null)
        /\ RegisterFlowLookedUp(d)
        /\ \E p \in callback[d].profile : p.registered_at = 0
        /\ callback[d].redirect = Redirect("/onboarding/verifikasi", Null)

\* The register-flow callbacks c and d are of the same user, and d started
\* after c had returned.
SequentialRetry(c, d) ==
    /\ c # d
    /\ c \in callback[d].startedAfter
    /\ RegisterFlowLookedUp(c) /\ RegisterFlowLookedUp(d)
    /\ callback[c].user = callback[d].user

\* The insert of callback c returned without an error.
InsertSucceeded(c) ==
    /\ callback[c].insertCalls = 1
    /\ callback[c].pc = "done"
    /\ callback[c].thrown = Null
    /\ callback[c].redirect = Redirect("/onboarding/verifikasi", Null)

BothObservedAbsent(c, d) ==
    /\ c # d
    /\ RegisterFlowLookedUp(c) /\ RegisterFlowLookedUp(d)
    /\ callback[c].user = callback[d].user
    /\ NoProfileFound(c) /\ ~callback[c].profileError
    /\ NoProfileFound(d) /\ ~callback[d].profileError

ExchangeReturned(c) ==
    /\ callback[c].exchangeCalls = 1
    /\ callback[c].pc # "exchange"
    /\ (callback[c].thrown = Null \/ callback[c].profileReads = 1)

\* Callback c has neither read nor written the profiles table.
ProfileStoreUntouched(c) ==
    callback[c].profileReads = 0 /\ callback[c].insertCalls = 0

\* C15: a callback without a code returns oauth_failed with no exchange
\* attempted; one whose exchange returned an error returns
\* oauth_exchange_failed; one whose exchange returned no user returns
\* no_user; none of the three reads or writes the profiles table, and a
\* lookup is made only after an exchange that returned a user.
C15_EarlyFailures ==
    \A c \in Callbacks :
        /\ (callback[c].pc # "idle" /\ CodeMissing(callback[c].code)) =>
               /\ Returned(c)
               /\ callback[c].redirect = Redirect("/login", "oauth_failed")
               /\ callback[c].exchangeCalls = 0
               /\ ProfileStoreUntouched(c)
        /\ (ExchangeReturned(c) /\ callback[c].exchangeError) =>
               /\ Returned(c)
               /\ callback[c].redirect =
                      Redirect("/login", "oauth_exchange_failed")
               /\ ProfileStoreUntouched(c)
        /\ (ExchangeReturned(c) /\ ~callback[c].exchangeError
              /\ callback[c].user = Null) =>
               /\ Returned(c)
               /\ callback[c].redirect = Redirect("/login", "no_user")
               /\ ProfileStoreUntouched(c)
        /\ ~ProfileStoreUntouched(c) =>
               /\ ExchangeReturned(c)
               /\ ~callback[c].exchangeError
               /\ callback[c].user \in Users
               /\ ~CodeMissing(callback[c].code)

\* One callback's exchange returned an error and it answered
\* oauth_exchange_failed; the other's returned a session without a user and
\* it answered no_user.
C15_Witness ==
    \E c, d \in Callbacks :
        /\ ExchangeReturned(c) /\ callback[c].exchangeError
        /\ callback[c].redirect = Redirect("/login", "oauth_exchange_failed")
        /\ ExchangeReturned(d) /\ ~callback[d].exchangeError
        /\ callback[d].user = Null /\ callback[d].exchanged
        /\ callback[d].redirect = Redirect("/login", "no_user")

\* The redirects section 4.3 enumerates.
Destinations ==
    {Redirect("/login", e) :
        e \in {"oauth_failed", "oauth_exchange_failed", "no_user",
               "admin_oauth_blocked", "account_not_found",
               "unexpected_error"}}
    \cup {Redirect("/register", "profile_creation_failed"),
          Redirect("/cari-jodoh", Null),
          Redirect("/onboarding/verifikasi", Null)}

\* C16: a callback is at one of the handler's awaits until it returns, it
\* returns with one of the enumerated redirects and with nothing else, and a
\* callback in which something threw has returned the redirect to /login
\* with unexpected_error.
C16_AlwaysEnumeratedRedirect ==
    \A c \in Callbacks :
        /\ callback[c].pc \in
               {"idle", "exchange", "lookup", "insert", "signOut", "done"}
        /\ Returned(c) => callback[c].redirect \in Destinations
        /\ ~Returned(c) => callback[c].redirect = NoRedirect
        /\ callback[c].thrown # Null =>
               /\ Returned(c)
               /\ callback[c].redirect = Redirect("/login", "unexpected_error")

\* One callback returned unexpected_error after its insert threw, the other
\* returned profile_creation_failed.
C16_Witness ==
    \E c, d \in Callbacks :
        /\ Returned(c) /\ callback[c].thrown # Null
        /\ callback[c].insertCalls = 1
        /\ callback[c].redirect = Redirect("/login", "unexpected_error")
        /\ Returned(d) /\ callback[d].thrown = Null
        /\ callback[d].redirect =
               Redirect("/register", "profile_creation_failed")

\* The last completeOnboarding() call of summary o returned (no throw).
CompletionReturned(o) == summary[o].result \in {"success", "failure"}

\* C17: a completeOnboarding() call made for a user with a profile returns
\* success; it leaves registered_at non-null, at the value it had when it was
\* set already; so two calls for one user that returned left the same
\* registered_at, which the row still holds.
C17_CompleteOnboardingTwice ==
    /\ \A o \in Summaries :
         /\ summary[o].result = "success" =>
                /\ summary[o].after # 0
                /\ summary[o].before # 0 =>
                       summary[o].after = summary[o].before
                /\ RegisteredAt(profiles, summary[o].user) = summary[o].after
         /\ summary[o].result = "failure" =>
                (summary[o].user = Null
                   \/ RowsOf(profiles, summary[o].user) = {})
    /\ \A o, q \in Summaries :
         (summary[o].result = "success" /\ summary[q].result = "success"
            /\ summary[o].user = summary[q].user) =>
             summary[o].after = summary[q].after

\* One call found registered_at null, set it and returned success; a second
\* call for the same user found that value, left it and returned success.
C17_Witness ==
    \E o, q \in Summaries :
        /\ o # q
        /\ summary[o].user = summary[q].user
        /\ summary[o].result = "success" /\ summary[o].before = 0
        /\ summary[o].after # 0
        /\ summary[q].result = "success"
        /\ summary[q].before = summary[o].after
        /\ summary[q].after = summary[o].after
        /\ RegisteredAt(profiles, summary[o].user) = summary[o].after

\* C18 as claimed: whenever the summary has issued the completion action,
\* getOnboardingStatus() had produced both flags before the button was
\* pressed.
C18_CompletionOnlyAfterStatus ==
    \A o \in Summaries :
        summary[o].clicks > 0 =>
            /\ summary[o].flagsAtIssue.fiveQ \in {"0", "1"}
            /\ summary[o].flagsAtIssue.cv \in {"0", "1"}

\* C19: the page has gone to /cari-jodoh exactly when completeOnboarding()
\* returned success, not when it returned a failure or threw; isLoading is
\* true while the call is awaited and false once it has returned or thrown.
C19_NavigatesIffSuccess ==
    \A o \in Summaries :
        /\ summary[o].href = "/cari-jodoh" <=> summary[o].result = "success"
        /\ summary[o].href \in {Null, "/cari-jodoh"}
        /\ summary[o].isLoading <=> summary[o].pc = "awaiting"
        /\ (summary[o].result # "none" /\ summary[o].pc # "awaiting") =>
               ~summary[o].isLoading

\* One summary's call threw and it stayed on the page with isLoading false;
\* the other's second call returned success and it navigated, isLoading
\* false as well.
C19_Witness ==
    \E o, q \in Summaries :
        /\ summary[o].result = "throw" /\ summary[o].href = Null
        /\ summary[o].clicks = 1 /\ ~summary[o].isLoading
        /\ summary[q].result = "success" /\ summary[q].href = "/cari-jodoh"
        /\ summary[q].clicks = 2 /\ ~summary[q].isLoading

\* A step in which some callback's insert ran.
InsertStep ==
    \E c \in Callbacks :
        callback'[c].insertCalls = callback[c].insertCalls + 1

\* A step in which some summary's completeOnboarding() call ended.
CompletionStep ==
    \E o \in Summaries :
        summary[o].pc = "awaiting" /\ summary'[o].pc # "awaiting"

\* What one step may do to the profiles table: every row stays, with its
\* registered_at once that is set; a new row comes from a callback's insert
\* and has registered_at null; registered_at changes only from null to
\* non-null and only in a completion; a step of a login request changes
\* nothing.
ProfilesStep ==
    /\ \A p \in profiles :
         \E q \in profiles' :
            /\ q.user_id = p.user_id
            /\ p.registered_at # 0 => q.registered_at = p.registered_at
            /\ q.registered_at # p.registered_at =>
                   /\ p.registered_at = 0
                   /\ CompletionStep
    /\ \A q \in profiles' :
         RowsOf(profiles, q.user_id) = {} =>
            /\ q.registered_at = 0
            /\ InsertStep
    /\ \A u \in Users : Cardinality(RowsOf(profiles', u)) <= 1
    /\ login' # login => profiles' = profiles

\* C20: in every step of login requests, OAuth callbacks and onboarding
\* completions no profile row is deleted, a row is added only by the
\* callback's insert and with registered_at null, and registered_at changes
\* only in the completion step, from null to non-null.
C20_RegisteredAtMonotone == [][ProfilesStep]_vars

\* The callback inserted a user's row with registered_at null, the summary's
\* completion set it, and a login request has been answered.
C20_Witness ==
    \E c \in Callbacks, o \in Summaries, r \in LoginReqs :
        /\ InsertSucceeded(c)
        /\ summary[o].user = callback[c].user
        /\ summary[o].result = "success"
        /\ summary[o].before = 0
        /\ summary[o].after # 0
        /\ RegisteredAt(profiles, callback[c].user) = summary[o].after
        /\ Done(r) /\ login[r].profileReads = 1

\* The three redirects the handler signs out for.
SignOutRedirects ==
    {Redirect("/login", "admin_oauth_blocked"),
     Redirect("/login", "account_not_found"),
     Redirect("/register", "profile_creation_failed")}

LookupErroredForExistingUser(c) ==
    /\ callback[c].profileReads = 1
    /\ callback[c].pc # "lookup"
    /\ callback[c].profileError
    /\ callback[c].stored # {}

AtRegisterInsert(c) ==
    /\ callback[c].pc = "insert"
    /\ callback[c].isRegisterFlow
    /\ callback[c].profile = {}

\* What a step of a login request or of an OAuth callback may do to the
\* profiles table: nothing, but for the step of a register-flow callback
\* that saw no profile and is at its insert, which may add one row of its
\* user.
HandlersFrameStep ==
    /\ login' # login => profiles' = profiles
    /\ profiles' # profiles => \E c \in Callbacks : AtRegisterInsert(c)
    /\ \A c \in Callbacks :
         callback'[c] # callback[c] =>
            IF AtRegisterInsert(c)
            THEN \/ profiles' = profiles
                 \/ profiles' =
                        profiles \cup {NewProfile(callback[c].user, now)}
            ELSE profiles' = profiles

\* C23: no step of the login handler, of a login-flow OAuth callback or of
\* an OAuth callback before its lookup changes the profiles table; the only
\* step of these handlers that does is the insert of a register-flow
\* callback that saw no profile.
C23_OnlyRegisterInsertWrites == [][HandlersFrameStep]_vars

\* A login request on the explicit route was answered with 200 and a
\* register-flow callback has inserted the row of a user it saw no profile
\* of.
C23_Witness ==
    \E c \in Callbacks, r \in LoginReqs :
        /\ Done(r) /\ Status(r) = 200 /\ login[r].route = "explicit"
        /\ InsertSucceeded(c) /\ callback[c].isRegisterFlow
        /\ callback[c].stored = {}
        /\ \E p \in RowsOf(profiles, callback[c].user) : p.created_at >= 2

----------------------------------------------------------------------------
(* The two login routes against each other *)

\* What was thrown in a request before the success response was built.
ThrownBeforeRespond(r) ==
    IF login[r].thrown \in {"Error: cookies was called outside a request scope",
                            "Error: invalid cookie"}
    THEN Null
    ELSE login[r].thrown

\* Request a went through the automatic route and request e through the
\* explicit one, both are answered, and both had the same body, the same
\* provider result, the same lookup result and the same throw in the steps
\* the routes share.
SameRequestOnBothRoutes(a, e) ==
    /\ Done(a) /\ login[a].route = "auto"
    /\ Done(e) /\ login[e].route = "explicit"
    /\ login[a].email = login[e].email
    /\ login[a].password = login[e].password
    /\ login[a].signIn = login[e].signIn
    /\ login[a].error = login[e].error
    /\ login[a].user = login[e].user
    /\ login[a].session = login[e].session
    /\ login[a].lookup = login[e].lookup
    /\ login[a].profile = login[e].profile
    /\ login[a].thrown = ThrownBeforeRespond(e)

====
